---- MODULE Spec2Model ----
(***************************************************************************)
(* Model of the deepseek-chat conversation store (Redux chatSlice), the    *)
(* turn orchestrator (useChat) and the engine handle (WebLLMService).      *)
(*                                                                         *)
(* The Redux state `state.chat` is the variable `chat`; every reducer of   *)
(* the slice is an operator from a ChatState and a payload to the next     *)
(* ChatState, so that a handler dispatching several actions in a row is    *)
(* one step composing them.                                                *)
(***************************************************************************)
EXTENDS Integers, Sequences, FiniteSets, TLC

VARIABLES
    chat,          \* state.chat : ChatState
    now,           \* the value Date.now() returns
    hasService,    \* whether useChat was given a service (not null)
    hookMessages,  \* the `messages` captured by the last render of useChat
    engine,        \* WebLLMService.engine: NoEngine or an engine id
    ready,         \* WebLLMService.ready
    engines,       \* engine id -> Engine(status, unloads)
    loads,         \* in-flight loadModel / initialize calls
    turns,         \* in-flight sendMessage calls, awaiting service.chat
    chatCalls,     \* number of engine.chat.completions.create calls made
    storage,       \* the conversations object store: id -> record or NoRecord
    saveTimer,     \* the timeout saveTimeoutRef holds, with what it captured
    storageOps,    \* the storageService calls made, oldest first
    stream,        \* the generator a chatStream call returned
    lastOp         \* the operation that made the last step, with its input

vars == <<chat, now, hasService, hookMessages, engine, ready, engines, loads,
          turns, chatCalls, storage, saveTimer, storageOps, stream, lastOp>>

NULL == "null"

----------------------------------------------------------------------------
(* Bounds of the model *)

MaxConvs == 3      \* conversations held by the store at once
MaxMsgs == 2       \* messages held by the store at once (SpecStore, SpecChat)
MaxLog == 3        \* messages held by the store at once (SpecLog)
MaxTime == 3       \* ticks of the clock
MaxOps == 3        \* storageService calls
MaxChunks == 3     \* chunks the engine produces for one stream
MaxTurns == 2      \* sendMessage calls that pass the input checks
MaxLoads == 2      \* loadModel calls

(* Program constants *)

maxLength == 50    \* generateTitle
DebounceDelay == 500   \* the delay of the save timeout, in milliseconds

----------------------------------------------------------------------------
(* Strings *)

RECURSIVE Repeat(_, _)
Repeat(c, n) == IF n = 0 THEN "" ELSE c \o Repeat(c, n - 1)

Whitespace == {" ", "\t", "\n"}

RECURSIVE TrimStart(_)
TrimStart(s) ==
    IF Len(s) > 0 /\ SubSeq(s, 1, 1) \in Whitespace
    THEN TrimStart(SubSeq(s, 2, Len(s)))
    ELSE s

RECURSIVE TrimEnd(_)
TrimEnd(s) ==
    IF Len(s) > 0 /\ SubSeq(s, Len(s), Len(s)) \in Whitespace
    THEN TrimEnd(SubSeq(s, 1, Len(s) - 1))
    ELSE s

\* String.prototype.trim
Trim(s) == TrimEnd(TrimStart(s))

----------------------------------------------------------------------------
(* Values *)

ConvIds == {"conv-1", "conv-2", "conv-3"}
Roles == {"user", "assistant", "system"}

Short == "What is the weather today?"
Exact50 == Repeat("B", 50)
Over50 == Repeat("C", 51)
Long100 == Repeat("A", 100)

Message(id, role, content, timestamp) ==
    [id |-> id, role |-> role, content |-> content, timestamp |-> timestamp]

Conversation(id, title, messages, createdAt, updatedAt) ==
    [id |-> id, title |-> title, messages |-> messages,
     createdAt |-> createdAt, updatedAt |-> updatedAt]

\* handleNewChat's payload
NewConversation(id) == Conversation(id, "New Chat", <<>>, now, now)

Ids(convs) == {convs[i].id : i \in 1..Len(convs)}

RECURSIVE Total(_)
Total(convs) ==
    IF convs = <<>> THEN 0
    ELSE Len(Head(convs).messages) + Total(Tail(convs))

----------------------------------------------------------------------------
(* chatSlice: initial state and reducers *)

initialState ==
    [conversations |-> <<>>,
     activeConversationId |-> NULL,
     isLoading |-> FALSE,
     error |-> NULL,
     modelStatus |-> "idle",
     loadProgress |-> 0]

\* Array.prototype.findIndex(c => c.id === id), 1-based; 0 when absent
FindIndex(convs, id) ==
    IF \E i \in 1..Len(convs) : convs[i].id = id
    THEN CHOOSE i \in 1..Len(convs) :
            /\ convs[i].id = id
            /\ \A j \in 1..(i - 1) : convs[j].id # id
    ELSE 0

\* Array.prototype.splice(index, 1)
Splice(seq, index) == SubSeq(seq, 1, index - 1) \o SubSeq(seq, index + 1, Len(seq))

generateTitle_NoEllipsis(content) ==
    IF Len(content) <= maxLength THEN content
    ELSE SubSeq(content, 1, maxLength)

generateTitle(content) ==
    IF Len(content) <= maxLength THEN content
    ELSE SubSeq(content, 1, maxLength) \o "..."

createConversation_NoSelect(state, payload) ==
    [state EXCEPT !.conversations = Append(@, payload)]

createConversation(state, payload) ==
    [state EXCEPT !.conversations = Append(@, payload),
                  !.activeConversationId = payload.id]

deleteConversation_KeepActive(state, payload) ==
    LET index == FindIndex(state.conversations, payload)
    IN  IF index # 0
        THEN [state EXCEPT !.conversations = Splice(@, index)]
        ELSE state

deleteConversation_AlwaysFirst(state, payload) ==
    LET index == FindIndex(state.conversations, payload)
        rest == Splice(state.conversations, index)
    IN  IF index # 0
        THEN [state EXCEPT !.conversations = rest,
                           !.activeConversationId =
                               IF Len(rest) > 0 THEN rest[1].id ELSE NULL]
        ELSE state

deleteConversation(state, payload) ==
    LET index == FindIndex(state.conversations, payload)
        rest == Splice(state.conversations, index)
    IN  IF index # 0
        THEN [state EXCEPT
                !.conversations = rest,
                !.activeConversationId =
                    IF state.activeConversationId = payload
                    THEN (IF Len(rest) > 0 THEN rest[1].id ELSE NULL)
                    ELSE @]
        ELSE state

setActiveConversation_OnlyKnown(state, payload) ==
    IF payload \in Ids(state.conversations)
    THEN [state EXCEPT !.activeConversationId = payload]
    ELSE state

setActiveConversation(state, payload) ==
    [state EXCEPT !.activeConversationId = payload]

loadConversations(state, payload) ==
    [state EXCEPT !.conversations = payload,
                  !.activeConversationId =
                      IF Len(payload) > 0 THEN payload[1].id ELSE NULL]

updateConversationTitle(state, payload) ==
    LET index == FindIndex(state.conversations, payload.id)
    IN  IF index # 0
        THEN [state EXCEPT !.conversations[index].title = payload.title]
        ELSE state

\* messages.slice(0, -1).some(m => m.role === 'user') on the log after the push
SomeEarlierUser(messages) ==
    \E i \in 1..(Len(messages) - 1) : messages[i].role = "user"

addMessage_Prepend(state, payload) ==
    LET index == FindIndex(state.conversations, state.activeConversationId)
        pushed == <<payload>> \o state.conversations[index].messages
    IN  IF index # 0
        THEN [state EXCEPT
                !.conversations[index].messages = pushed,
                !.conversations[index].updatedAt = now,
                !.conversations[index].title =
                    IF payload.role = "user" /\ ~SomeEarlierUser(pushed)
                    THEN generateTitle(payload.content)
                    ELSE @]
        ELSE state

addMessage_TitleFromEveryUser(state, payload) ==
    LET index == FindIndex(state.conversations, state.activeConversationId)
        pushed == Append(state.conversations[index].messages, payload)
    IN  IF index # 0
        THEN [state EXCEPT
                !.conversations[index].messages = pushed,
                !.conversations[index].updatedAt = now,
                !.conversations[index].title =
                    IF payload.role = "user"
                    THEN generateTitle(payload.content)
                    ELSE @]
        ELSE state

addMessage(state, payload) ==
    LET index == FindIndex(state.conversations, state.activeConversationId)
        pushed == Append(state.conversations[index].messages, payload)
    IN  IF index # 0
        THEN [state EXCEPT
                !.conversations[index].messages = pushed,
                !.conversations[index].updatedAt = now,
                !.conversations[index].title =
                    IF payload.role = "user" /\ ~SomeEarlierUser(pushed)
                    THEN generateTitle(payload.content)
                    ELSE @]
        ELSE state

setLoading(state, payload) == [state EXCEPT !.isLoading = payload]

setError(state, payload) == [state EXCEPT !.error = payload]

setModelStatus(state, payload) == [state EXCEPT !.modelStatus = payload]

setLoadProgress(state, payload) == [state EXCEPT !.loadProgress = payload]

clearChat_Everywhere(state) ==
    [state EXCEPT
        !.conversations = [i \in 1..Len(@) |->
                             [@[i] EXCEPT !.messages = <<>>,
                                          !.updatedAt = now]],
        !.error = NULL]

clearChat(state) ==
    LET index == FindIndex(state.conversations, state.activeConversationId)
    IN  IF index # 0
        THEN [state EXCEPT !.conversations[index].messages = <<>>,
                           !.conversations[index].updatedAt = now,
                           !.error = NULL]
        ELSE [state EXCEPT !.error = NULL]

clearError(state) == [state EXCEPT !.error = NULL]

\* Array.prototype.find(m => m.id === id) on a log, 1-based; 0 when absent
FindMessage(messages, id) ==
    IF \E i \in 1..Len(messages) : messages[i].id = id
    THEN CHOOSE i \in 1..Len(messages) :
            /\ messages[i].id = id
            /\ \A j \in 1..(i - 1) : messages[j].id # id
    ELSE 0

updateMessage(state, payload) ==
    LET index == FindIndex(state.conversations, state.activeConversationId)
        m == IF index # 0
             THEN FindMessage(state.conversations[index].messages, payload.id)
             ELSE 0
    IN  IF m # 0
        THEN [state EXCEPT
                !.conversations[index].messages[m].content = payload.content,
                !.conversations[index].updatedAt = now]
        ELSE state

----------------------------------------------------------------------------
(* Initial state: the store as constructed, no engine, nothing in flight *)

\* WebLLMService.engine when it is null; engines are numbered from 1
NoEngine == 0

EngineIds == 1..MaxLoads

\* an engine CreateMLCEngine may return: "none" until it is returned,
\* "resident" from then on, "unloaded" once an unload() of it has resolved;
\* `unloads` counts the calls of its unload()
Engine(status, unloads) == [status |-> status, unloads |-> unloads]

\* an operation and its input, with the selection and the store size it
\* found: `arg` is an id, `n` the index of a load or turn or a number given,
\* `text` a text given (to sendMessage, as a title or content, by the engine
\* as reply, or as the message of the Error a call was rejected with), and
\* `msg` a message payload; NULL, 0 and NoMessage where there is none
NoMessage == Message(NULL, NULL, NULL, 0)

OpRec(name, arg, n, text, msg) ==
    [op |-> name, arg |-> arg, n |-> n, text |-> text, msg |-> msg,
     active |-> chat.activeConversationId,
     size |-> Len(chat.conversations)]

Op(name, arg) == OpRec(name, arg, 0, NULL, NoMessage)

OpN(name, n) == OpRec(name, NULL, n, NULL, NoMessage)

OpText(name, arg, n, text) == OpRec(name, arg, n, text, NoMessage)

OpMsg(name, msg) == OpRec(name, NULL, 0, NULL, msg)

\* the object store holds NoRecord under a key it has no record for
NoRecord == Conversation(NULL, NULL, <<>>, 0, 0)

EmptyStorage == [id \in ConvIds |-> NoRecord]

\* a timeout set by the save effect, with the values its callback closes over
Timeout(pending, due, conversations, activeConversationId) ==
    [pending |-> pending, due |-> due, conversations |-> conversations,
     activeConversationId |-> activeConversationId]

NoTimeout == Timeout(FALSE, 0, <<>>, NULL)

\* the generator of chatStream: where its body stands ("none" before any
\* call, "suspended" before the first next(), "creating", "iterating",
\* "returned", "thrown"), the contents of the chunks the engine produced, the
\* fragments yielded, and the message and type of the WebLLMError thrown
Stream(pc, produced, yielded, error, type) ==
    [pc |-> pc, produced |-> produced, yielded |-> yielded, error |-> error,
     type |-> type]

NoStream == Stream("none", <<>>, <<>>, NULL, NULL)

InitWith(services) ==
    /\ chat = initialState
    /\ now = 0
    /\ hasService \in services
    /\ hookMessages = <<>>
    /\ engine = NoEngine
    /\ ready = FALSE
    /\ engines = [e \in EngineIds |-> Engine("none", 0)]
    /\ loads = <<>>
    /\ turns = <<>>
    /\ chatCalls = 0
    /\ storage = EmptyStorage
    /\ saveTimer = NoTimeout
    /\ storageOps = <<>>
    /\ stream = NoStream
    /\ lastOp = Op("init", NULL)

\* what a dispatch to the store leaves alone
OutsideStore == <<now, hasService, stream, storage, saveTimer, storageOps,
                  hookMessages, engine, ready, engines, loads, turns,
                  chatCalls>>

----------------------------------------------------------------------------
(* Dispatches of the slice's actions *)

CreateConversation(id) ==
    /\ id \notin Ids(chat.conversations)
    /\ Len(chat.conversations) < MaxConvs
    /\ chat' = createConversation(chat, NewConversation(id))
    /\ lastOp' = Op("createConversation", id)
    /\ UNCHANGED OutsideStore

DeleteConversation(id) ==
    /\ chat' = deleteConversation(chat, id)
    /\ lastOp' = Op("deleteConversation", id)
    /\ UNCHANGED OutsideStore

SetActiveConversation(id) ==
    /\ chat' = setActiveConversation(chat, id)
    /\ lastOp' = Op("setActiveConversation", id)
    /\ UNCHANGED OutsideStore

LoadConversations(payload) ==
    /\ chat' = loadConversations(chat, payload)
    /\ lastOp' = OpN("loadConversations", Len(payload))
    /\ UNCHANGED OutsideStore

UpdateConversationTitle(id, title) ==
    /\ chat' = updateConversationTitle(chat, [id |-> id, title |-> title])
    /\ lastOp' = OpText("updateConversationTitle", id, 0, title)
    /\ UNCHANGED OutsideStore

AddMessage(payload) ==
    /\ chat' = addMessage(chat, payload)
    /\ lastOp' = OpMsg("addMessage", payload)
    /\ UNCHANGED OutsideStore

ClearChat ==
    /\ chat' = clearChat(chat)
    /\ lastOp' = Op("clearChat", NULL)
    /\ UNCHANGED OutsideStore

UpdateMessage(id, content) ==
    /\ chat' = updateMessage(chat, [id |-> id, content |-> content])
    /\ lastOp' = OpText("updateMessage", id, 0, content)
    /\ UNCHANGED OutsideStore

----------------------------------------------------------------------------
(* SpecStore: every sequence of the slice's conversation operations *)

NoSuchId == "non-existent"

StoreMessages ==
    {Message("m1", "user", "Hi", now), Message("m2", "assistant", "Hello!", now)}

\* what storage may hand to loadConversations: records keyed by id
StoredLists ==
    {<<>>,
     <<Conversation("conv-2", "Stored", <<>>, 0, 0)>>,
     <<Conversation("conv-3", "Hi", <<Message("m1", "user", "Hi", 0)>>, 0, 0),
       Conversation("conv-1", "Stored", <<>>, 0, 0)>>}

InitStore == InitWith({TRUE})

NextStore ==
    \/ \E id \in ConvIds : CreateConversation(id)
    \/ \E id \in ConvIds \cup {NoSuchId} : DeleteConversation(id)
    \/ \E id \in Ids(chat.conversations) : SetActiveConversation(id)
    \/ \E payload \in StoredLists : LoadConversations(payload)
    \/ \E id \in ConvIds \cup {NoSuchId} : UpdateConversationTitle(id, "Renamed")
    \/ \E payload \in StoreMessages :
          Total(chat.conversations) < MaxMsgs /\ AddMessage(payload)
    \/ ClearChat
    \/ \E id \in {"m1", "m3"} : UpdateMessage(id, "Edited")

SpecStore == InitStore /\ [][NextStore]_vars

----------------------------------------------------------------------------
(* Claims about the conversation store, checked under SpecStore *)

\* C1: after any sequence of store operations (setActiveConversation only
\* with ids in the store), a non-empty store has an active id that is the id
\* of one of its conversations, and an empty store has no active id.
C1_ActiveReferencesMember ==
    IF chat.conversations # <<>>
    THEN \E i \in 1..Len(chat.conversations) :
            chat.conversations[i].id = chat.activeConversationId
    ELSE chat.activeConversationId = NULL

\* the active conversation was deleted and the selection fell on another one
C1_Witness ==
    /\ lastOp.op = "deleteConversation"
    /\ lastOp.arg = lastOp.active
    /\ Len(chat.conversations) = 2
    /\ chat.activeConversationId # lastOp.arg

\* the sequence `seq` without its element at position i
Without(seq, i) ==
    [j \in 1..(Len(seq) - 1) |-> IF j < i THEN seq[j] ELSE seq[j + 1]]

\* C5: deleting the active conversation removes exactly that conversation,
\* keeps the others in their order, and selects the first one remaining, or
\* none when the store becomes empty.
C5_DeleteActiveSelectsFirst ==
    [][(/\ lastOp'.op = "deleteConversation"
        /\ lastOp'.arg = chat.activeConversationId
        /\ \E i \in 1..Len(chat.conversations) : chat.conversations[i].id = lastOp'.arg)
       => \E i \in 1..Len(chat.conversations) :
            /\ chat.conversations[i].id = lastOp'.arg
            /\ chat'.conversations = Without(chat.conversations, i)
            /\ chat'.activeConversationId =
                 IF Len(chat.conversations) > 1
                 THEN (IF i = 1 THEN chat.conversations[2].id
                       ELSE chat.conversations[1].id)
                 ELSE NULL]_vars

\* three conversations, the second one active and deleted: the first is selected
C5_Witness ==
    /\ lastOp.op = "deleteConversation"
    /\ lastOp.arg = lastOp.active
    /\ lastOp.size = 3
    /\ Len(chat.conversations) = 2
    /\ lastOp.arg \notin {chat.conversations[1].id, chat.conversations[2].id}
    /\ chat.activeConversationId = chat.conversations[1].id
    /\ chat.conversations[1].id = "conv-1"
    /\ chat.conversations[2].id = "conv-3"

\* C6: deleting an id that is not the active one never changes the active
\* id, and deleting an id that is not in the store changes nothing.
C6_DeleteOtherKeepsActive ==
    [][(lastOp'.op = "deleteConversation" /\ lastOp'.arg # chat.activeConversationId)
       => /\ chat'.activeConversationId = chat.activeConversationId
          /\ (\A i \in 1..Len(chat.conversations) :
                  chat.conversations[i].id # lastOp'.arg) => chat' = chat]_vars

\* a conversation other than the active one was deleted from the store
C6_Witness ==
    /\ lastOp.op = "deleteConversation"
    /\ lastOp.active \notin {NULL, lastOp.arg}
    /\ Len(chat.conversations) = lastOp.size - 1
    /\ Len(chat.conversations) = 2
    /\ chat.activeConversationId = lastOp.active
    /\ chat.activeConversationId = chat.conversations[2].id

----------------------------------------------------------------------------
(* SpecLog: appends of every role and of titles on both sides of maxLength *)

LogConvIds == {"conv-1", "conv-2"}

LogMessages ==
    {Message("u", "user", c, now) : c \in {Short, Exact50, Over50, Long100}}
    \cup {Message("a", "assistant", Over50, now)}
    \cup {Message("s", "system", Over50, now)}

NextLog ==
    \/ \E id \in LogConvIds : CreateConversation(id)
    \/ \E id \in Ids(chat.conversations) : SetActiveConversation(id)
    \/ \E id \in LogConvIds : UpdateConversationTitle(id, "Renamed")
    \/ \E payload \in LogMessages :
          Total(chat.conversations) < MaxLog /\ AddMessage(payload)
    \/ ClearChat

SpecLog == InitStore /\ [][NextLog]_vars

\* the position of the active conversation in the store, 0 when there is none
ActiveIndex ==
    IF \E i \in 1..Len(chat.conversations) :
          chat.conversations[i].id = chat.activeConversationId
    THEN CHOOSE i \in 1..Len(chat.conversations) :
          chat.conversations[i].id = chat.activeConversationId
    ELSE 0

ActiveLog == chat.conversations[ActiveIndex].messages

HasUser(log) == \E k \in 1..Len(log) : log[k].role = "user"

\* C2: each addMessage made while a conversation is active puts its payload
\* at the end of that conversation's log, one element longer, and changes
\* no other conversation's log; so N calls from an empty log give the N
\* payloads in call order.
C2_AppendInCallOrder ==
    [][(lastOp'.op = "addMessage" /\ ActiveIndex # 0)
       => /\ Len(chat'.conversations) = Len(chat.conversations)
          /\ \A j \in 1..Len(chat.conversations) :
               /\ chat'.conversations[j].id = chat.conversations[j].id
               /\ chat'.conversations[j].messages =
                    IF j = ActiveIndex
                    THEN [k \in 1..(Len(ActiveLog) + 1) |->
                            IF k <= Len(ActiveLog) THEN ActiveLog[k]
                            ELSE lastOp'.msg]
                    ELSE chat.conversations[j].messages]_vars

\* three appends to one conversation, in call order, beside another conversation
C2_Witness ==
    /\ lastOp.op = "addMessage"
    /\ Len(chat.conversations) = 2
    /\ ActiveIndex # 0
    /\ Len(ActiveLog) = 3
    /\ ActiveLog[1].content = Short /\ ActiveLog[1].role = "user"
    /\ ActiveLog[2].role = "assistant"
    /\ ActiveLog[3].content = Long100
    /\ ActiveLog[3] = lastOp.msg

\* C3: the first user-role message of a log sets the title to the content
\* when it has at most 50 characters, and else to its first 50 characters
\* followed by '...', 53 characters.
C3_FirstUserMessageSetsTitle ==
    [][(/\ lastOp'.op = "addMessage"
        /\ lastOp'.msg.role = "user"
        /\ ActiveIndex # 0
        /\ ~HasUser(ActiveLog))
       => LET content == lastOp'.msg.content
              title == chat'.conversations[ActiveIndex].title
          IN  IF Len(content) <= 50
              THEN title = content
              ELSE /\ title = SubSeq(content, 1, 50) \o "..."
                   /\ Len(title) = 53]_vars

\* a first user message of 100 'A' gave the title of 50 'A' and the ellipsis
C3_Witness ==
    /\ lastOp.op = "addMessage"
    /\ lastOp.msg.content = Long100
    /\ lastOp.msg.role = "user"
    /\ ActiveIndex # 0
    /\ Len(ActiveLog) = 2
    /\ ActiveLog[1].role = "assistant"
    /\ chat.conversations[ActiveIndex].title = Repeat("A", 50) \o "..."

\* C4: an assistant or system message, and a user message that is not the
\* first user message of the log, leave the title as it was.
C4_LaterMessagesKeepTitle ==
    [][(/\ lastOp'.op = "addMessage"
        /\ ActiveIndex # 0
        /\ \/ lastOp'.msg.role \in {"assistant", "system"}
           \/ lastOp'.msg.role = "user" /\ HasUser(ActiveLog))
       => chat'.conversations[ActiveIndex].title =
            chat.conversations[ActiveIndex].title]_vars

\* a second user message was appended and the title is still the first one's
C4_Witness ==
    /\ lastOp.op = "addMessage"
    /\ lastOp.msg.role = "user"
    /\ lastOp.msg.content = Over50
    /\ ActiveIndex # 0
    /\ Len(ActiveLog) = 2
    /\ ActiveLog[1].role = "user"
    /\ ActiveLog[1].content = Short
    /\ ActiveLog[2] = lastOp.msg
    /\ chat.conversations[ActiveIndex].title = Short

----------------------------------------------------------------------------
(* WebLLMService: the engine handle, and useWebLLM.loadModel around it *)

NotInitializedMessage == "Engine not initialized"
NoContentMessage == "No content in response"
GenerateFallback == "Failed to generate response"
InitializeFallback == "Failed to initialize model"

\* a thrown value: an Error with a message, or something that is no Error
ErrorOf(message) == [isError |-> TRUE, message |-> message]
NotAnError == [isError |-> FALSE, message |-> NULL]

\* error instanceof Error ? error.message : fallback
MessageOf(error, fallback) == IF error.isError THEN error.message ELSE fallback

\* WebLLMService.isReady
isReady == ready

\* the guard of chat and chatStream
EngineUsable == engine # NoEngine /\ ready

\* a call of loadModel: where it stands ("unloading", "creating", "done",
\* "failed", "unloadFailed") and the engine whose unload() it called, if any
Load(pc, old) == [pc |-> pc, old |-> old]

\* initialize up to its first await: engine.unload() is called when the
\* handle is ready and holds an engine, else CreateMLCEngine is called
Initialize_NeverUnload == Load("creating", NoEngine)

Initialize ==
    IF ready /\ engine # NoEngine THEN Load("unloading", engine)
                                  ELSE Load("creating", NoEngine)

\* the dispatches of loadModel after initialize resolved
LoadSucceeded(state) == setLoadProgress(setModelStatus(state, "ready"), 100)

\* the dispatches of loadModel's catch block
LoadFailed_ResetsProgress(state, error) ==
    setLoadProgress(
        setError(setModelStatus(state, "error"),
                 MessageOf(error, InitializeFallback)),
        0)

LoadFailed(state, error) ==
    setError(setModelStatus(state, "error"),
             MessageOf(error, InitializeFallback))

\* loadModel up to its first suspension: the store is set to loading, then
\* service.initialize is entered
LoadModel ==
    /\ Len(loads) < MaxLoads
    /\ chat' = setLoadProgress(setModelStatus(chat, "loading"), 0)
    /\ loads' = Append(loads, Initialize)
    /\ engines' = IF Initialize.pc = "unloading"
                  THEN [engines EXCEPT ![Initialize.old].unloads = @ + 1]
                  ELSE engines
    /\ lastOp' = OpN("loadModel", Len(loads) + 1)
    /\ UNCHANGED <<now, hasService, stream, storage, saveTimer, storageOps,
                   hookMessages, engine, ready, turns, chatCalls>>

\* the effect run once when useWebLLM mounts: loadModel(currentModel)
MountLoad ==
    /\ loads = <<>>
    /\ LoadModel

\* engine.unload() resolved: the handle drops the engine it holds and calls
\* CreateMLCEngine
UnloadDone(l) ==
    /\ loads[l].pc = "unloading"
    /\ engines' = [engines EXCEPT ![loads[l].old].status = "unloaded"]
    /\ ready' = FALSE
    /\ engine' = NoEngine
    /\ loads' = [loads EXCEPT ![l].pc = "creating"]
    /\ lastOp' = OpN("unloadDone", l)
    /\ UNCHANGED <<chat, now, hasService, stream, storage, saveTimer,
                   storageOps, hookMessages, turns, chatCalls>>

\* engine.unload() rejected: the await is outside the try, so initialize
\* rejects with the handle as it was, and loadModel records the error
UnloadRejected(l, error) ==
    /\ loads[l].pc = "unloading"
    /\ loads' = [loads EXCEPT ![l].pc = "unloadFailed"]
    /\ chat' = LoadFailed(chat, error)
    /\ lastOp' = OpText("unloadRejected", NULL, l,
                        IF error.isError THEN error.message ELSE NULL)
    /\ UNCHANGED <<now, hasService, stream, storage, saveTimer, storageOps,
                   hookMessages, engine, ready, engines, turns, chatCalls>>

\* Math.round(progress * 100), for a progress given in thousandths
Percent_Unscaled(thousandths) == thousandths

Percent(thousandths) == (thousandths + 5) \div 10

\* initProgressCallback -> onProgress -> dispatch(setLoadProgress(...))
Progress(l, thousandths) ==
    /\ loads[l].pc = "creating"
    /\ chat' = setLoadProgress(chat, Percent(thousandths))
    /\ lastOp' = OpN("progress", thousandths)
    /\ UNCHANGED <<now, hasService, stream, storage, saveTimer, storageOps,
                   hookMessages, engine, ready, engines, loads, turns,
                   chatCalls>>

\* CreateMLCEngine resolved: the handle takes the engine and is ready, and
\* loadModel records ready
CreateResolved(l) ==
    /\ loads[l].pc = "creating"
    /\ engine' = l
    /\ engines' = [engines EXCEPT ![l].status = "resident"]
    /\ ready' = TRUE
    /\ loads' = [loads EXCEPT ![l].pc = "done"]
    /\ chat' = LoadSucceeded(chat)
    /\ lastOp' = OpN("createResolved", l)
    /\ UNCHANGED <<now, hasService, stream, storage, saveTimer, storageOps,
                   hookMessages, turns, chatCalls>>

\* what initialize rejects with when CreateMLCEngine rejected with `error`
Rethrown_Wrapped(error) == ErrorOf(InitializeFallback)

Rethrown(error) == error

\* the handle's fields after the catch block of initialize
Caught_KeepsEngine == [ready |-> FALSE, engine |-> engine]

Caught == [ready |-> FALSE, engine |-> NoEngine]

\* CreateMLCEngine rejected: the catch block of initialize, then that of
\* loadModel
CreateRejected(l, error) ==
    /\ loads[l].pc = "creating"
    /\ ready' = Caught.ready
    /\ engine' = Caught.engine
    /\ loads' = [loads EXCEPT ![l].pc = "failed"]
    /\ chat' = LoadFailed(chat, Rethrown(error))
    /\ lastOp' = OpText("createRejected", NULL, l,
                        IF error.isError THEN error.message ELSE NULL)
    /\ UNCHANGED <<now, hasService, stream, storage, saveTimer, storageOps,
                   hookMessages, engines, turns, chatCalls>>

----------------------------------------------------------------------------
(* useChat *)

\* messages.map(msg => ({ role, content }))
RoleContent(messages) ==
    [k \in 1..Len(messages) |->
        [role |-> messages[k].role, content |-> messages[k].content]]

\* a re-render of the hook: `messages` is the log of the active conversation
Render ==
    LET index == FindIndex(chat.conversations, chat.activeConversationId)
        log == IF index # 0 THEN chat.conversations[index].messages ELSE <<>>
    IN  /\ hookMessages # log
        /\ hookMessages' = log
        /\ lastOp' = Op("render", NULL)
        /\ UNCHANGED <<chat, now, hasService, stream, storage, saveTimer,
                       storageOps, engine, ready, engines, loads, turns,
                       chatCalls>>

Turn(pc, messages) == [pc |-> pc, messages |-> messages]

\* the dispatches of sendMessage before the engine is called
SendMessageBegin_KeepError(state, trimmedContent) ==
    setLoading(
        addMessage(state, Message("user-" \o ToString(now), "user",
                                  trimmedContent, now)),
        TRUE)

SendMessageBegin_NoLoading(state, trimmedContent) ==
    setError(
        addMessage(state, Message("user-" \o ToString(now), "user",
                                  trimmedContent, now)),
        NULL)

SendMessageBegin(state, trimmedContent) ==
    setError(
        setLoading(
            addMessage(state, Message("user-" \o ToString(now), "user",
                                      trimmedContent, now)),
            TRUE),
        NULL)

\* the dispatches of sendMessage after chat returned `response`
SendMessageThen_Twice(state, response) ==
    LET assistantMessage ==
            Message("assistant-" \o ToString(now), "assistant", response, now)
    IN  setLoading(addMessage(addMessage(state, assistantMessage),
                              assistantMessage), FALSE)

SendMessageThen_BeforeLast(state, response) ==
    LET index == FindIndex(state.conversations, state.activeConversationId)
        assistantMessage ==
            Message("assistant-" \o ToString(now), "assistant", response, now)
        log == state.conversations[index].messages
    IN  IF index # 0 /\ Len(log) > 0
        THEN setLoading(
                 [state EXCEPT !.conversations[index].messages =
                     SubSeq(log, 1, Len(log) - 1)
                       \o <<assistantMessage, log[Len(log)]>>],
                 FALSE)
        ELSE setLoading(addMessage(state, assistantMessage), FALSE)

SendMessageThen(state, response) ==
    setLoading(
        addMessage(state, Message("assistant-" \o ToString(now), "assistant",
                                  response, now)),
        FALSE)

\* the catch and finally blocks of sendMessage
SendMessageCatch_NoFinally(state, error) ==
    setError(state, MessageOf(error, GenerateFallback))

SendMessageCatch_DropsUser(state, error) ==
    LET index == FindIndex(state.conversations, state.activeConversationId)
        failed == setLoading(setError(state, MessageOf(error, GenerateFallback)),
                             FALSE)
    IN  IF index # 0 /\ Len(state.conversations[index].messages) > 0
        THEN [failed EXCEPT !.conversations[index].messages =
                 SubSeq(@, 1, Len(@) - 1)]
        ELSE failed

SendMessageCatch(state, error) ==
    setLoading(setError(state, MessageOf(error, GenerateFallback)), FALSE)

\* whether sendMessage returns at its input checks
Rejects_ServiceOnly(content) == ~hasService

Rejects(content) == Trim(content) = "" \/ ~hasService

\* sendMessage up to its await: the input checks, the dispatches, and the
\* call of service.chat, which throws when the engine is not usable and
\* otherwise calls engine.chat.completions.create
SendMessage(content) ==
    /\ lastOp' = OpText("sendMessage", NULL, 0, content)
    /\ IF Rejects(content)
       THEN UNCHANGED <<chat, turns, chatCalls>>
       ELSE /\ Len(turns) < MaxTurns
            /\ chat' = SendMessageBegin(chat, Trim(content))
            /\ turns' = Append(turns,
                  Turn(IF EngineUsable THEN "awaiting" ELSE "notInitialized",
                       RoleContent(hookMessages)
                         \o <<[role |-> "user", content |-> Trim(content)]>>))
            /\ chatCalls' = IF EngineUsable THEN chatCalls + 1 ELSE chatCalls
    /\ UNCHANGED <<now, hasService, stream, storage, saveTimer, storageOps,
                   hookMessages, engine, ready, engines, loads>>

Done == Turn("done", <<>>)

\* service.chat threw NOT_INITIALIZED: sendMessage resumes in its catch
ChatNotInitialized(t) ==
    /\ turns[t].pc = "notInitialized"
    /\ chat' = SendMessageCatch(chat, ErrorOf(NotInitializedMessage))
    /\ turns' = [turns EXCEPT ![t] = Done]
    /\ lastOp' = OpN("chatNotInitialized", t)
    /\ UNCHANGED <<now, hasService, stream, storage, saveTimer, storageOps,
                   hookMessages, engine, ready, engines, loads, chatCalls>>

\* response.choices[0]?.message?.content when it is undefined
UNDEFINED == "undefined"

\* whether chat returns the content the engine resolved with
ChatReturns_Truthy(content) == content \notin {UNDEFINED, NULL, ""}

ChatReturns(content) == content # UNDEFINED /\ content # NULL

\* the engine's completion resolved with message content `content`: chat
\* returns it, or throws 'No content in response'
ChatResolved(t, content) ==
    /\ turns[t].pc = "awaiting"
    /\ chat' = IF ChatReturns(content)
               THEN SendMessageThen(chat, content)
               ELSE SendMessageCatch(chat, ErrorOf(NoContentMessage))
    /\ turns' = [turns EXCEPT ![t] = Done]
    /\ lastOp' = OpText(IF ChatReturns(content) THEN "chatResolved"
                                                ELSE "chatNoContent",
                        NULL, t, content)
    /\ UNCHANGED <<now, hasService, stream, storage, saveTimer, storageOps,
                   hookMessages, engine, ready, engines, loads, chatCalls>>

\* the engine's completion rejected with `error`
ChatRejected(t, error) ==
    /\ turns[t].pc = "awaiting"
    /\ chat' = SendMessageCatch(chat, error)
    /\ turns' = [turns EXCEPT ![t] = Done]
    /\ lastOp' = OpText("chatRejected", NULL, t,
                         IF error.isError THEN error.message ELSE NULL)
    /\ UNCHANGED <<now, hasService, stream, storage, saveTimer, storageOps,
                   hookMessages, engine, ready, engines, loads, chatCalls>>

\* service?.abort(): how many times WebLLMService.abort is entered
AbortCalls == IF hasService THEN 1 ELSE 0

\* WebLLMService.abort: engine.interruptGenerate() if an engine is held
Interrupts == hasService /\ engine # NoEngine

\* the dispatch of abort
AbortDispatch_OnlyWithEngine(state) ==
    IF engine # NoEngine THEN setLoading(state, FALSE) ELSE state

AbortDispatch(state) == setLoading(state, FALSE)

\* abort: service?.abort(), then setLoading(false); `n` records the calls of
\* WebLLMService.abort and `arg` whether the engine was interrupted
Abort ==
    /\ chat' = AbortDispatch(chat)
    /\ lastOp' = OpRec("abort", IF Interrupts THEN "interruptGenerate" ELSE NULL,
                       AbortCalls, NULL, NoMessage)
    /\ UNCHANGED OutsideStore

\* service?.reset() calls made by one clear
ResetCalls == IF hasService THEN 1 ELSE 0

\* whether service?.reset() reaches engine.resetChat()
ResetsContext == hasService /\ engine # NoEngine

\* clear: clearChat, then service?.reset()
Clear ==
    /\ chat' = clearChat(chat)
    /\ lastOp' = OpRec("clear", IF ResetsContext THEN "resetChat" ELSE NULL,
                       ResetCalls, NULL, NoMessage)
    /\ UNCHANGED OutsideStore

\* the time between two readings of the clock
TickStep == DebounceDelay \div 2

\* the clock advances; a timeout that is due runs before it advances further
Tick ==
    /\ now < MaxTime * TickStep
    /\ ~(saveTimer.pending /\ saveTimer.due <= now)
    /\ now' = now + TickStep
    /\ lastOp' = Op("tick", NULL)
    /\ UNCHANGED <<chat, hasService, stream, storage, saveTimer, storageOps,
                   hookMessages, engine, ready, engines, loads, turns,
                   chatCalls>>

----------------------------------------------------------------------------
(* SpecChat: turns against the engine handle while the model named at mount
   is loaded; no model switch is made *)

ChatConvIds == {"conv-1"}
Blank == {"", "   ", " \t\n"}
Texts == Blank \cup {"  Hello  "}
Responses == {"Hi!"}
Failures == {ErrorOf("Generation failed"), NotAnError}

\* message contents an engine completion may carry
Contents == Responses \cup {"", NULL, UNDEFINED}

InitChat == InitWith(BOOLEAN)

Completes ==
    \/ \E t \in 1..Len(turns) : ChatNotInitialized(t)
    \/ \E t \in 1..Len(turns) : \E content \in Contents :
          ChatResolved(t, content)
    \/ \E t \in 1..Len(turns) : \E error \in Failures : ChatRejected(t, error)

NextChat ==
    \/ \E id \in ChatConvIds : CreateConversation(id)
    \/ MountLoad
    \/ \E l \in 1..Len(loads) : CreateResolved(l)
    \/ \E l \in 1..Len(loads) : CreateRejected(l, ErrorOf("WebGPU not supported"))
    \/ Render
    \/ \E content \in Texts : SendMessage(content)
    \/ Completes
    \/ Abort
    \/ Clear

SpecChat == InitChat /\ [][NextChat]_vars

\* every engine call made completes, and a thrown NOT_INITIALIZED is caught
SpecChatLive == SpecChat /\ WF_vars(Completes)

----------------------------------------------------------------------------
(* Claims about the turn orchestrator, checked under SpecChat *)

AllTurnsDone == \A t \in 1..Len(turns) : turns[t].pc = "done"

\* the step recorded as `o` was a sendMessage of an empty or white-space text
BlankSend(o) == o.op = "sendMessage" /\ o.text \in {"", "   ", " \t\n"}

\* the step recorded as `o` was a sendMessage of a text with other characters
TextSend(o) == o.op = "sendMessage" /\ o.text \notin {"", "   ", " \t\n"}

\* C7: sendMessage of an empty or white-space-only text changes nothing: no
\* log, not isLoading, not lastError, and neither service.chat nor the
\* engine is called.
C7_BlankTextIsNoOp ==
    [][BlankSend(lastOp')
       => /\ chat' = chat
          /\ turns' = turns
          /\ chatCalls' = chatCalls]_vars

\* a text of three spaces was sent where a real text would have reached the engine
C7_Witness ==
    /\ lastOp.op = "sendMessage"
    /\ lastOp.text = "   "
    /\ hasService
    /\ ready /\ engine # NoEngine
    /\ ActiveIndex # 0
    /\ ActiveLog = <<>>
    /\ turns = <<>>
    /\ chatCalls = 0

\* C8: sendMessage of a non-empty text is a no-op whenever the engine handle
\* is not ready: no user message, isLoading and lastError unchanged, chat
\* not called.
C8_NotReadyIsNoOp ==
    [][(TextSend(lastOp') /\ ~ready)
       => /\ chat' = chat
          /\ turns' = turns
          /\ chatCalls' = chatCalls]_vars

\* C9: a turn whose chat call fails leaves every log as it is, so its user
\* message stays and no assistant message is added, and sets lastError to
\* the failure's message; a sendMessage that passes the checks sets
\* lastError to null, and a chat call that succeeds while a conversation is
\* active appends exactly one assistant message, with the returned text, and
\* does not write lastError; lastError becomes non-null only when a chat
\* call or a model load fails.
C9_FailedTurnKeepsUserMessage ==
    [][/\ lastOp'.op \in {"chatRejected", "chatNoContent", "chatNotInitialized"}
          => /\ chat'.conversations = chat.conversations
             /\ chat'.error =
                  CASE lastOp'.op = "chatNotInitialized" -> "Engine not initialized"
                    [] lastOp'.op = "chatNoContent" -> "No content in response"
                    [] lastOp'.op = "chatRejected" ->
                         IF lastOp'.text # NULL
                         THEN lastOp'.text
                         ELSE "Failed to generate response"
       /\ (TextSend(lastOp') /\ hasService)
          => /\ chat'.error = NULL
             /\ ActiveIndex # 0 =>
                  /\ Len(chat'.conversations[ActiveIndex].messages) =
                       Len(ActiveLog) + 1
                  /\ chat'.conversations[ActiveIndex].messages[Len(ActiveLog) + 1].role
                       = "user"
       /\ (lastOp'.op = "chatResolved" /\ ActiveIndex # 0)
          => /\ chat'.error = chat.error
             /\ LET log == chat'.conversations[ActiveIndex].messages
                IN  /\ Len(log) = Len(ActiveLog) + 1
                    /\ SubSeq(log, 1, Len(ActiveLog)) = ActiveLog
                    /\ log[Len(log)].role = "assistant"
                    /\ log[Len(log)].content = lastOp'.text
       /\ (chat'.error # chat.error /\ chat'.error # NULL)
          => lastOp'.op \in {"chatRejected", "chatNoContent",
                             "chatNotInitialized", "createRejected"}]_vars

\* a turn failed, the next one succeeded: two user messages, one reply, no error
C9_Witness ==
    /\ lastOp.op = "chatResolved"
    /\ Len(turns) = 2
    /\ AllTurnsDone
    /\ ActiveIndex # 0
    /\ Len(ActiveLog) = 3
    /\ ActiveLog[1].role = "user"
    /\ ActiveLog[2].role = "user"
    /\ ActiveLog[3].role = "assistant"
    /\ chat.error = NULL

\* C10: a sendMessage that passes the checks sets isLoading, every
\* completion of its chat call, resolved or rejected, clears it, and when
\* every call completes the turns all end with isLoading false.
C10_LoadingClearedOnCompletion ==
    /\ [][/\ (TextSend(lastOp') /\ hasService) => chat'.isLoading
          /\ lastOp'.op \in {"chatResolved", "chatRejected", "chatNoContent",
                             "chatNotInitialized"}
             => ~chat'.isLoading]_vars
    /\ [](AllTurnsDone => ~chat.isLoading)
    /\ (~AllTurnsDone) ~> (AllTurnsDone /\ ~chat.isLoading)

\* the last of two turns was rejected by the engine and isLoading is false
C10_Witness ==
    /\ lastOp.op = "chatRejected"
    /\ Len(turns) = 2
    /\ AllTurnsDone
    /\ chatCalls = 2
    /\ ~chat.isLoading

\* C11: abort leaves isLoading false, with or without a generation in
\* flight, an engine or a service; it enters the handle's abort exactly when
\* a service exists, and changes nothing else (no error is recorded, no turn
\* is ended).
C11_AbortClearsLoading ==
    [][lastOp'.op = "abort"
       => /\ ~chat'.isLoading
          /\ chat' = [chat EXCEPT !.isLoading = FALSE]
          /\ lastOp'.n = (IF hasService THEN 1 ELSE 0)
          /\ turns' = turns]_vars

\* abort was called while the only turn was awaiting a loaded engine
C11_Witness ==
    /\ lastOp.op = "abort"
    /\ lastOp.n = 1
    /\ lastOp.arg = "interruptGenerate"
    /\ Len(turns) = 1
    /\ turns[1].pc = "awaiting"
    /\ ~chat.isLoading

\* abort was called with no service, no engine and nothing in flight
C11_WitnessNoService ==
    /\ lastOp.op = "abort"
    /\ lastOp.n = 0
    /\ ~hasService
    /\ turns = <<>>
    /\ ~chat.isLoading

\* the log of the active conversation, empty when none is active
StoreLog == IF ActiveIndex # 0 THEN ActiveLog ELSE <<>>

\* C12: every sendMessage that passes the checks hands service.chat the
\* role/content projection of the active conversation's log as the store
\* holds it when the call is made, in order, followed by one entry for the
\* new user message.
C12_ChatArgsAreStoreLog ==
    [][(TextSend(lastOp') /\ hasService)
       => LET args == turns'[Len(turns')].messages
          IN  /\ Len(args) = Len(StoreLog) + 1
              /\ SubSeq(args, 1, Len(StoreLog)) = RoleContent(StoreLog)
              /\ args[Len(args)].role = "user"]_vars

----------------------------------------------------------------------------
(* SpecOverlap: calls of sendMessage with different texts that overlap at
   the engine, which answers them in any order *)

OverlapTexts == {"first", "second"}
OverlapResponses == {"reply A", "reply B"}

NextOverlap ==
    \/ \E id \in ChatConvIds : CreateConversation(id)
    \/ MountLoad
    \/ \E l \in 1..Len(loads) : CreateResolved(l)
    \/ Render
    \/ \E content \in OverlapTexts : SendMessage(content)
    \/ \E t \in 1..Len(turns) : ChatNotInitialized(t)
    \/ \E t \in 1..Len(turns) : \E content \in OverlapResponses :
          ChatResolved(t, content)
    \/ \E t \in 1..Len(turns) : \E error \in Failures : ChatRejected(t, error)

SpecOverlap == InitStore /\ [][NextOverlap]_vars

\* C13: a sendMessage that passes the checks puts its user message at the
\* end of the active log at once, also while an earlier call is awaiting the
\* engine; a reply is put at the end of the log in the step in which its own
\* engine call resolves; and no other step changes a log; so two overlapping
\* calls leave both user messages in call order, followed by the replies in
\* resolution order.
C13_OverlappingTurnsOrder ==
    [][/\ (TextSend(lastOp') /\ ActiveIndex # 0)
          => LET log == chat'.conversations[ActiveIndex].messages
             IN  /\ Len(log) = Len(ActiveLog) + 1
                 /\ SubSeq(log, 1, Len(ActiveLog)) = ActiveLog
                 /\ log[Len(log)].role = "user"
                 /\ log[Len(log)].content = Trim(lastOp'.text)
       /\ (lastOp'.op = "chatResolved" /\ ActiveIndex # 0)
          => LET log == chat'.conversations[ActiveIndex].messages
             IN  /\ Len(log) = Len(ActiveLog) + 1
                 /\ SubSeq(log, 1, Len(ActiveLog)) = ActiveLog
                 /\ log[Len(log)].role = "assistant"
                 /\ log[Len(log)].content = lastOp'.text
       /\ (ActiveIndex # 0 /\ lastOp'.op \notin {"sendMessage", "chatResolved"})
          => /\ Len(chat'.conversations) >= ActiveIndex
             /\ chat'.conversations[ActiveIndex].messages = ActiveLog]_vars

\* "first" then "second" were sent before either call resolved; the call of
\* "second" resolved first, with "reply B", and the call of "first" last
C13_Witness ==
    /\ lastOp.op = "chatResolved"
    /\ lastOp.n = 1
    /\ lastOp.text = "reply A"
    /\ Len(turns) = 2
    /\ AllTurnsDone
    /\ ActiveIndex # 0
    /\ Len(ActiveLog) = 4
    /\ ActiveLog[1].role = "user" /\ ActiveLog[1].content = "first"
    /\ ActiveLog[2].role = "user" /\ ActiveLog[2].content = "second"
    /\ ActiveLog[3].role = "assistant" /\ ActiveLog[3].content = "reply B"
    /\ ActiveLog[4].role = "assistant" /\ ActiveLog[4].content = "reply A"

----------------------------------------------------------------------------
(* SpecLoad: the lifecycle controller and the engine handle: the mount load,
   model switches that may overlap, and chat requests made at any moment *)

\* WebLLMService.chat up to its await: it throws NOT_INITIALIZED or calls
\* the engine it holds; `arg` records which, `n` the engine reached
ChatRequest ==
    /\ lastOp' = OpRec("chat",
                       IF EngineUsable THEN "engine" ELSE NotInitializedMessage,
                       IF EngineUsable THEN engine ELSE NoEngine,
                       NULL, NoMessage)
    /\ UNCHANGED <<chat, now, hasService, stream, storage, saveTimer,
                   storageOps, hookMessages, engine, ready, engines, loads,
                   turns, chatCalls>>

\* handleRetry, offered by ErrorDisplay while an error is shown: it awaits
\* useWebLLM.reset, which is service.reset(): engine.resetChat() when an
\* engine is held (`arg`), and nothing else
Retry ==
    /\ chat.error # NULL
    /\ lastOp' = Op("retry", IF engine # NoEngine THEN "resetChat" ELSE NULL)
    /\ UNCHANGED <<chat, now, hasService, stream, storage, saveTimer,
                   storageOps, hookMessages, engine, ready, engines, loads,
                   turns, chatCalls>>

LoadFailures == {ErrorOf("WebGPU is not supported"), NotAnError}

\* progress values the engine reports, in thousandths
Fractions == {0, 4, 5, 500, 994, 995, 1000}

NextLoad ==
    \/ LoadModel
    \/ \E l \in 1..Len(loads) : UnloadDone(l)
    \/ \E l \in 1..Len(loads) : UnloadRejected(l, ErrorOf("Unload failed"))
    \/ \E l \in 1..Len(loads) : \E thousandths \in Fractions :
          Progress(l, thousandths)
    \/ \E l \in 1..Len(loads) : CreateResolved(l)
    \/ \E l \in 1..Len(loads) : \E error \in LoadFailures :
          CreateRejected(l, error)
    \/ ChatRequest
    \/ Retry

SpecLoad == InitStore /\ [][NextLoad]_vars

\* the loads that have called CreateMLCEngine
Constructions ==
    {l \in 1..Len(loads) : loads[l].pc \in {"creating", "done", "failed"}}

\* the calls of engine.unload() made so far
UnloadCalls ==
    LET RECURSIVE Sum(_)
        Sum(e) == IF e = 0 THEN 0 ELSE engines[e].unloads + Sum(e - 1)
    IN  Sum(MaxLoads)

\* C14: a second initialize, called after the first completed successfully
\* and with no other call around, calls unload() of the first engine and
\* does not construct yet; from then on there is exactly one unload call, it
\* is of the first engine, the second construction starts only after that
\* unload has resolved, and constructions number two in total once it has.
C14_SwitchUnloadsThenConstructs ==
    /\ [][(lastOp'.op = "loadModel" /\ Len(loads) = 1 /\ loads[1].pc = "done")
          => /\ loads'[2] = Load("unloading", 1)
             /\ engines'[1].unloads = 1
             /\ Constructions' = {1}]_vars
    /\ []((Len(loads) = 2 /\ loads[1].pc = "done" /\ loads[2].old = 1)
          => /\ UnloadCalls = 1
             /\ engines[1].unloads = 1
             /\ (2 \in Constructions) => engines[1].status = "unloaded"
             /\ loads[2].pc \in {"creating", "done", "failed"}
                  <=> Constructions = {1, 2}
             /\ loads[2].pc \in {"unloading", "unloadFailed"}
                  <=> Constructions = {1})

\* the second of two successive initialize calls has completed: the first
\* engine is unloaded, the second is resident and held by the ready handle
C14_Witness ==
    /\ Len(loads) = 2
    /\ loads[1].pc = "done"
    /\ loads[2] = Load("done", 1)
    /\ engines[1] = Engine("unloaded", 1)
    /\ engines[2] = Engine("resident", 0)
    /\ engine = 2
    /\ ready

\* C15: under every interleaving of initialize calls at most one engine is
\* resident: an engine that was constructed and is not the one the handle
\* holds has been unloaded, and no engine has unload() called more than once.
C15_AtMostOneResident ==
    \A e \in EngineIds :
        /\ engines[e].status = "resident" => engine = e
        /\ engines[e].unloads <= 1

\* a model switch is in progress: an initialize that was called on the ready
\* handle has not yet made its engine ready
SwitchInProgress ==
    \E l \in 1..Len(loads) :
        loads[l].old # NoEngine /\ loads[l].pc \in {"unloading", "creating"}

\* C16: from the start of a model switch until the new engine is ready every
\* chat request fails with NOT_INITIALIZED and none reaches an engine, also
\* while the unload of the old engine is pending.
C16_NoRequestDuringSwitch ==
    [][(lastOp'.op = "chat" /\ SwitchInProgress)
       => /\ lastOp'.arg = "Engine not initialized"
          /\ lastOp'.n = NoEngine]_vars

\* C17: chat on a handle never initialized, or whose last initialize
\* failed, fails with 'Engine not initialized' and reaches no engine; and
\* isReady() is true exactly when the most recent initialize call has
\* completed successfully.
C17_NotInitializedUnlessLastInitializeDone ==
    /\ [][(/\ lastOp'.op = "chat"
            /\ \/ loads = <<>>
               \/ loads[Len(loads)].pc \in {"failed", "unloadFailed"})
          => /\ lastOp'.arg = "Engine not initialized"
             /\ lastOp'.n = NoEngine]_vars
    /\ [](isReady <=> (loads # <<>> /\ loads[Len(loads)].pc = "done"))

\* the step was the resolution of an engine completion
Completion(o) == o.op \in {"chatResolved", "chatNoContent"}

\* C18 as claimed: a completion whose content is undefined, null or empty
\* makes chat fail: the turn records 'No content in response' and appends
\* no assistant message.
C18_NoContentOrEmptyFails ==
    [][(Completion(lastOp') /\ lastOp'.text \in {UNDEFINED, NULL, ""})
       => /\ chat'.error = "No content in response"
          /\ chat'.conversations = chat.conversations]_vars

\* C18 as amended: a completion whose content is undefined or null makes
\* chat fail with 'No content in response' and no assistant message is
\* appended; a completion whose content is the empty string makes chat
\* return "", which the turn appends as an assistant message with empty
\* content, recording no error.
C18_AbsentFailsEmptyReturns ==
    [][/\ (Completion(lastOp') /\ lastOp'.text \in {UNDEFINED, NULL})
          => /\ chat'.error = "No content in response"
             /\ chat'.conversations = chat.conversations
       /\ (Completion(lastOp') /\ lastOp'.text = "" /\ ActiveIndex # 0)
          => LET log == chat'.conversations[ActiveIndex].messages
             IN  /\ Len(log) = Len(ActiveLog) + 1
                 /\ log[Len(log)].role = "assistant"
                 /\ log[Len(log)].content = ""
                 /\ chat'.error = chat.error]_vars

\* the engine answered the only turn with an empty string: the log ends
\* with an assistant message of empty content and no error is recorded
C18_Witness ==
    /\ Completion(lastOp)
    /\ lastOp.text = ""
    /\ Len(turns) = 1
    /\ AllTurnsDone
    /\ ActiveIndex # 0
    /\ Len(ActiveLog) = 2
    /\ ActiveLog[2].role = "assistant"
    /\ ActiveLog[2].content = ""
    /\ chat.error = NULL

StatusEdges ==
    {<<"idle", "loading">>, <<"loading", "ready">>, <<"loading", "error">>,
     <<"ready", "loading">>, <<"error", "loading">>}

\* C20: whenever modelStatus changes, it changes along an edge of the
\* lifecycle state machine; never from ready to error or from error to
\* ready directly.
C20_StatusFollowsEdges ==
    [][chat'.modelStatus # chat.modelStatus
       => <<chat.modelStatus, chat'.modelStatus>> \in StatusEdges]_vars

\* C21: every change of modelStatus to loading sets loadProgress to 0 and
\* lastError to null.
C21_LoadingResetsProgressAndError ==
    [][(chat'.modelStatus = "loading" /\ chat.modelStatus # "loading")
       => /\ chat'.loadProgress = 0
          /\ chat'.error = NULL]_vars

\* C22: loadProgress is an integer from 0 to 100 in every state, whatever
\* fraction from 0 to 1 the engine reports.
C22_LoadProgressInRange ==
    chat.loadProgress \in 0..100

\* the engine reported 0.994 and the store shows 99
C22_Witness ==
    /\ lastOp.op = "progress"
    /\ lastOp.n = 994
    /\ chat.loadProgress = 99
    /\ chat.modelStatus = "loading"

\* C23: a load that fails sets modelStatus to error and lastError to the
\* failure's message, or to 'Failed to initialize model' when the failure
\* is not an Error, and leaves loadProgress as it was; a load that succeeds
\* sets modelStatus to ready and loadProgress to 100.
C23_LoadOutcomeRecorded ==
    [][/\ lastOp'.op \in {"createRejected", "unloadRejected"}
          => /\ chat'.modelStatus = "error"
             /\ chat'.error = IF lastOp'.text # NULL
                              THEN lastOp'.text
                              ELSE "Failed to initialize model"
             /\ chat'.loadProgress = chat.loadProgress
       /\ lastOp'.op = "createResolved"
          => /\ chat'.modelStatus = "ready"
             /\ chat'.loadProgress = 100]_vars

\* a load that had reported 50 failed with a value that is not an Error
C23_Witness ==
    /\ lastOp.op = "createRejected"
    /\ lastOp.text = NULL
    /\ chat.modelStatus = "error"
    /\ chat.error = "Failed to initialize model"
    /\ chat.loadProgress = 50

\* C24: from modelStatus error after a failed load, the retry action sets
\* modelStatus to loading and starts a new initialize.
C24_RetryRestartsLoad ==
    [][(lastOp'.op = "retry" /\ chat.modelStatus = "error")
       => /\ chat'.modelStatus = "loading"
          /\ Len(loads') = Len(loads) + 1]_vars

----------------------------------------------------------------------------
(* storageService: the conversations object store, keyed by id *)

\* the keys of the object store, in the order db.getAll lists its records
KeyOrder == <<"conv-1", "conv-2", "conv-3">>

\* db.getAll('conversations')
getAll(store) ==
    SelectSeq([i \in 1..Len(KeyOrder) |-> store[KeyOrder[i]]],
              LAMBDA record : record # NoRecord)

\* where a stable sort by (a, b) => b.updatedAt - a.updatedAt puts `record`
\* among the records sorted before it
InsertByUpdatedAt(sorted, record) ==
    LET ahead == Cardinality({i \in 1..Len(sorted) :
                                sorted[i].updatedAt >= record.updatedAt})
    IN  SubSeq(sorted, 1, ahead) \o <<record>>
          \o SubSeq(sorted, ahead + 1, Len(sorted))

RECURSIVE SortByUpdatedAt(_)
SortByUpdatedAt(records) ==
    IF records = <<>> THEN <<>>
    ELSE InsertByUpdatedAt(SortByUpdatedAt(SubSeq(records, 1, Len(records) - 1)),
                           records[Len(records)])

getAllConversations(store) == SortByUpdatedAt(getAll(store))

\* db.put('conversations', conversation)
saveConversation(store, conversation) ==
    [store EXCEPT ![conversation.id] = conversation]

\* db.delete('conversations', id)
storageDeleteConversation(store, id) == [store EXCEPT ![id] = NoRecord]

\* a call of storageService awaited by `caller`; `conversations` is the list
\* the caller closes over and reads after the await
StorageCall(method, caller, id, record, conversations) ==
    [method |-> method, caller |-> caller, id |-> id, record |-> record,
     conversations |-> conversations]

\* a call that has resolved or rejected
Settled == StorageCall(NULL, NULL, NULL, NoRecord, <<>>)

\* the calls in flight
Pending == {i \in 1..Len(storageOps) : storageOps[i] # Settled}

\* the oldest call in flight: the object store runs the calls in the order
\* they were made
Oldest == CHOOSE i \in Pending : \A j \in Pending : i <= j

\* the object store after `call` ran against it
Landed(store, call) ==
    CASE call.method = "saveConversation" -> saveConversation(store, call.record)
      [] call.method = "deleteConversation" ->
            storageDeleteConversation(store, call.id)
      [] OTHER -> store

----------------------------------------------------------------------------
(* ChatApp: the save effect, the startup load and the sidebar's handlers *)

\* conversations.find(c => c.id === id); NoRecord for undefined
Find(conversations, id) ==
    IF FindIndex(conversations, id) # 0
    THEN conversations[FindIndex(conversations, id)]
    ELSE NoRecord

\* conversations.filter(c => c.id !== id)
Remaining(conversations, id) ==
    SelectSeq(conversations, LAMBDA c : c.id # id)

\* the dependencies of the save effect
Deps(state) == <<state.conversations, state.activeConversationId>>

SaveEffect_KeepsPending(timer, before, after) ==
    IF Deps(after) = Deps(before) \/ timer.pending THEN timer
    ELSE IF Len(after.conversations) = 0 THEN NoTimeout
    ELSE Timeout(TRUE, now + DebounceDelay, after.conversations,
                 after.activeConversationId)

\* the save effect over a render that took the store from `before` to
\* `after`: when a dependency changed, its cleanup clears the timeout and it
\* sets a new one, unless there are no conversations
SaveEffect(timer, before, after) ==
    IF Deps(after) = Deps(before) THEN timer
    ELSE IF Len(after.conversations) = 0 THEN NoTimeout
    ELSE Timeout(TRUE, now + DebounceDelay, after.conversations,
                 after.activeConversationId)

\* ids some record, call or closure still names; crypto.randomUUID() returns
\* none of them
Named ==
    Ids(chat.conversations) \cup Ids(saveTimer.conversations)
      \cup {id \in ConvIds : storage[id] # NoRecord}
      \cup {storageOps[i].id : i \in 1..Len(storageOps)}
      \cup UNION {Ids(storageOps[i].conversations) : i \in 1..Len(storageOps)}

handleNewChat(state, id) == createConversation(state, NewConversation(id))

HandleNewChat(id) ==
    /\ id \in ConvIds \ Named
    /\ Len(chat.conversations) < MaxConvs
    /\ chat' = handleNewChat(chat, id)
    /\ saveTimer' = SaveEffect(saveTimer, chat, chat')
    /\ lastOp' = Op("handleNewChat", id)
    /\ UNCHANGED <<now, hasService, stream, storage, storageOps, hookMessages,
                   engine, ready, engines, loads, turns, chatCalls>>

HandleSelectConversation(id) ==
    /\ id \in Ids(chat.conversations)
    /\ chat' = setActiveConversation(chat, id)
    /\ saveTimer' = SaveEffect(saveTimer, chat, chat')
    /\ lastOp' = Op("handleSelectConversation", id)
    /\ UNCHANGED <<now, hasService, stream, storage, storageOps, hookMessages,
                   engine, ready, engines, loads, turns, chatCalls>>

\* a message is added to the active conversation and ChatApp renders
MessageAdded(content) ==
    /\ FindIndex(chat.conversations, chat.activeConversationId) # 0
    /\ Total(chat.conversations) < MaxMsgs
    /\ chat' = addMessage(chat, Message("user-" \o ToString(now), "user",
                                        content, now))
    /\ saveTimer' = SaveEffect(saveTimer, chat, chat')
    /\ lastOp' = OpText("messageAdded", chat.activeConversationId, 0, content)
    /\ UNCHANGED <<now, hasService, stream, storage, storageOps, hookMessages,
                   engine, ready, engines, loads, turns, chatCalls>>

\* the timeout runs: it saves the active conversation of the render that
\* set it
SaveTimeout ==
    /\ saveTimer.pending
    /\ saveTimer.due <= now
    /\ Len(storageOps) < MaxOps
    /\ LET activeConv == Find(saveTimer.conversations,
                              saveTimer.activeConversationId)
       IN  /\ storageOps' =
                IF activeConv # NoRecord
                THEN Append(storageOps,
                            StorageCall("saveConversation", "saveTimeout",
                                        activeConv.id, activeConv, <<>>))
                ELSE storageOps
           /\ lastOp' = Op("saveTimeout", activeConv.id)
    /\ saveTimer' = NoTimeout
    /\ UNCHANGED <<chat, now, hasService, stream, storage, hookMessages,
                   engine, ready, engines, loads, turns, chatCalls>>

RenamedRecord_OldTitle(conversation, newTitle) ==
    [conversation EXCEPT !.updatedAt = now]

\* { ...conversation, title: newTitle, updatedAt: Date.now() }
RenamedRecord(conversation, newTitle) ==
    [conversation EXCEPT !.title = newTitle, !.updatedAt = now]

\* handleRenameConversation up to its await
HandleRenameConversation(id, newTitle) ==
    /\ id \in Ids(chat.conversations)
    /\ Len(storageOps) < MaxOps
    /\ chat' = updateConversationTitle(chat, [id |-> id, title |-> newTitle])
    /\ saveTimer' = SaveEffect(saveTimer, chat, chat')
    /\ storageOps' =
          Append(storageOps,
                 StorageCall("saveConversation", "handleRenameConversation",
                             id,
                             RenamedRecord(Find(chat.conversations, id),
                                           newTitle),
                             <<>>))
    /\ lastOp' = OpText("handleRenameConversation", id, 0, newTitle)
    /\ UNCHANGED <<now, hasService, stream, storage, hookMessages, engine,
                   ready, engines, loads, turns, chatCalls>>

\* handleDeleteConversation up to its await
HandleDeleteConversation(id) ==
    /\ id \in Ids(chat.conversations)
    /\ Len(storageOps) < MaxOps
    /\ storageOps' =
          Append(storageOps,
                 StorageCall("deleteConversation", "handleDeleteConversation",
                             id, NoRecord, chat.conversations))
    /\ lastOp' = Op("handleDeleteConversation", id)
    /\ UNCHANGED <<chat, now, hasService, stream, storage, saveTimer,
                   hookMessages, engine, ready, engines, loads, turns,
                   chatCalls>>

\* whether the caller of `call`, resumed after its await, calls handleNewChat
CreatesChat(store, call) ==
    CASE call.caller = "loadFromStorage" ->
            Len(getAllConversations(store)) = 0
      [] call.caller = "handleDeleteConversation" ->
            Len(Remaining(call.conversations, call.id)) = 0
      [] OTHER -> FALSE

\* the store after the caller of `call` resumed from its await and ran to
\* its end; `id` is the id handleNewChat draws
Resumed(state, store, call, id) ==
    CASE call.caller = "loadFromStorage" ->
            IF Len(getAllConversations(store)) > 0
            THEN loadConversations(state, getAllConversations(store))
            ELSE handleNewChat(state, id)
      [] call.caller = "handleDeleteConversation" ->
            IF Len(Remaining(call.conversations, call.id)) = 0
            THEN handleNewChat(deleteConversation(state, call.id), id)
            ELSE deleteConversation(state, call.id)
      [] OTHER -> state

\* the oldest storage call in flight completes and its caller resumes
StorageResolved ==
    /\ Pending # {}
    /\ LET call == storageOps[Oldest]
       IN  /\ storage' = Landed(storage, call)
           /\ \E id \in ConvIds :
                /\ IF CreatesChat(storage, call)
                   THEN id \notin Named
                   ELSE id = KeyOrder[1]
                /\ chat' = Resumed(chat, storage, call, id)
           /\ lastOp' = OpText("storageResolved", call.caller, 0, call.id)
    /\ saveTimer' = SaveEffect(saveTimer, chat, chat')
    /\ storageOps' = [storageOps EXCEPT ![Oldest] = Settled]
    /\ UNCHANGED <<now, hasService, stream, hookMessages, engine, ready,
                   engines, loads, turns, chatCalls>>

\* the oldest storage call in flight fails: no caller catches, so the
\* rejection leaves the caller without any further dispatch
StorageRejected(error) ==
    /\ Pending # {}
    /\ storageOps' = [storageOps EXCEPT ![Oldest] = Settled]
    /\ lastOp' = OpText("storageRejected", storageOps[Oldest].caller, 0,
                        error.message)
    /\ UNCHANGED <<chat, now, hasService, stream, storage, saveTimer,
                   hookMessages, engine, ready, engines, loads, turns,
                   chatCalls>>

----------------------------------------------------------------------------
(* ChatApp from its mount, against a storage that held records or none *)

StoredOlder == Conversation("conv-1", "First chat", <<>>, -2, -2)
StoredNewer == Conversation("conv-2", "Second chat", <<>>, -1, -1)

InitialStorages ==
    {EmptyStorage,
     saveConversation(saveConversation(EmptyStorage, StoredOlder), StoredNewer)}

\* after the mount: the save effect found no conversations, and
\* loadFromStorage awaits getAllConversations
InitPersist ==
    /\ chat = initialState
    /\ now = 0
    /\ hasService = TRUE
    /\ hookMessages = <<>>
    /\ engine = NoEngine
    /\ ready = FALSE
    /\ engines = [e \in EngineIds |-> Engine("none", 0)]
    /\ loads = <<>>
    /\ turns = <<>>
    /\ chatCalls = 0
    /\ storage \in InitialStorages
    /\ saveTimer = NoTimeout
    /\ storageOps = <<StorageCall("getAllConversations", "loadFromStorage",
                                  NULL, NoRecord, <<>>)>>
    /\ stream = NoStream
    /\ lastOp = Op("init", NULL)

StorageFailure == ErrorOf("QuotaExceededError")

\* the startup load has resolved or rejected
Loaded == storageOps[1] = Settled

(* SpecStartup: the user acts while the startup load is in flight and after *)

NextStartup ==
    \/ \E id \in ConvIds : HandleNewChat(id)
    \/ \E id \in ConvIds : HandleSelectConversation(id)
    \/ MessageAdded("Hello")
    \/ StorageResolved
    \/ StorageRejected(StorageFailure)

SpecStartup == InitPersist /\ [][NextStartup]_vars

(* SpecPersist: the user adds messages, renames and deletes once the startup
   load has settled, while time passes and storage calls resolve or reject *)

NextPersist ==
    \/ /\ Loaded
       /\ \/ MessageAdded("Hello")
          \/ \E id \in ConvIds : HandleRenameConversation(id, "Renamed")
          \/ \E id \in ConvIds : HandleDeleteConversation(id)
    \/ SaveTimeout
    \/ StorageResolved
    \/ StorageRejected(StorageFailure)
    \/ Tick

SpecPersist == InitPersist /\ [][NextPersist]_vars

----------------------------------------------------------------------------
(* Claims about the save timeout *)

\* the active conversation of `state`; NoRecord when there is none
ActiveConversation(state) ==
    Find(state.conversations, state.activeConversationId)

\* the storage calls made by the save timeout
DebouncedCalls(calls) ==
    {i \in 1..Len(calls) : calls[i].caller = "saveTimeout"}

\* C25: a burst of mutations of the active conversation, each less than the
\* 500 ms delay after the one before, leads to exactly one debounced write:
\* every mutation puts the write off to 500 ms after itself, nothing else
\* moves it, and when it is made it is made once, at that time, with the
\* active conversation as the last mutation left it.
C25_BurstCollapsesIntoOneWrite ==
    /\ [][(Deps(chat') # Deps(chat) /\ ActiveConversation(chat') # NoRecord)
          => /\ saveTimer'.pending
             /\ saveTimer'.due = now + DebounceDelay]_vars
    /\ [][(Deps(chat') = Deps(chat) /\ lastOp'.op # "saveTimeout")
          => /\ saveTimer' = saveTimer
             /\ DebouncedCalls(storageOps') \subseteq DebouncedCalls(storageOps)]_vars
    /\ [][lastOp'.op = "saveTimeout"
          => /\ saveTimer.pending
             /\ now = saveTimer.due
             /\ ~saveTimer'.pending
             /\ Len(storageOps') = Len(storageOps) + 1
             /\ storageOps'[Len(storageOps')] =
                  StorageCall("saveConversation", "saveTimeout",
                              chat.activeConversationId,
                              ActiveConversation(chat), <<>>)]_vars

\* two messages were added 250 ms apart, and one write was made 500 ms after
\* the second, carrying both
C25_Witness ==
    /\ lastOp.op = "saveTimeout"
    /\ Cardinality(DebouncedCalls(storageOps)) = 1
    /\ LET written == storageOps[Len(storageOps)].record
       IN  /\ written = ActiveConversation(chat)
           /\ Len(written.messages) = 2
           /\ written.messages[2].timestamp
                = written.messages[1].timestamp + TickStep
           /\ now = written.messages[2].timestamp + DebounceDelay

\* the calls in flight by which the save timeout writes conversation `id`
DebouncedWritesOf(calls, id) ==
    {i \in DebouncedCalls(calls) : calls[i] # Settled /\ calls[i].id = id}

\* C26: once the delete of a conversation has completed, storage holds no
\* record for it and no debounced write of it is in flight or pending,
\* whether or not the save timeout ran while the storage delete was awaited;
\* so no later flush writes the deleted conversation back.
C26_DeletedNeverWrittenBack ==
    [][(lastOp'.op = "storageResolved"
          /\ lastOp'.arg = "handleDeleteConversation")
       => /\ storage'[lastOp'.text] = NoRecord
          /\ DebouncedWritesOf(storageOps', lastOp'.text) = {}
          /\ ~(/\ saveTimer'.pending
               /\ saveTimer'.activeConversationId = lastOp'.text)]_vars

\* the calls in flight by which a rename writes conversation `id`
RenameWritesOf(calls, id) ==
    {i \in 1..Len(calls) : /\ calls[i].caller = "handleRenameConversation"
                           /\ calls[i].id = id}

\* { ...conversation, title: newTitle, updatedAt: Date.now() } for the
\* conversation `id` of `state`
Renamed(state, id, newTitle) ==
    [Find(state.conversations, id) EXCEPT !.title = newTitle,
                                          !.updatedAt = now]

\* C27: renaming a conversation of the store makes, in the same step and
\* whether or not the conversation is active, a storage write of it that
\* carries the new title; and the save timeout pending after the rename
\* carries the new title too; once the rename's write has landed and storage
\* and the store both hold the new title, no debounced write puts another
\* title in storage.
C27_RenameWritesAtOnce ==
    /\ [][lastOp'.op = "handleRenameConversation"
          => /\ Len(storageOps') = Len(storageOps) + 1
             /\ storageOps'[Len(storageOps')] =
                  StorageCall("saveConversation", "handleRenameConversation",
                              lastOp'.arg,
                              Renamed(chat, lastOp'.arg, lastOp'.text), <<>>)
             /\ (saveTimer'.pending
                   /\ lastOp'.arg \in Ids(saveTimer'.conversations))
                => Find(saveTimer'.conversations, lastOp'.arg).title
                     = lastOp'.text]_vars
    /\ [][(/\ lastOp'.op = "storageResolved"
           /\ lastOp'.arg = "saveTimeout"
           /\ RenameWritesOf(storageOps, lastOp'.text) = {}
           /\ storage[lastOp'.text].title = "Renamed"
           /\ Find(chat.conversations, lastOp'.text).title = "Renamed")
          => storage'[lastOp'.text].title = "Renamed"]_vars

\* a conversation that is not the active one was renamed, and storage holds
\* it under its new title
C27_Witness ==
    /\ lastOp.op = "storageResolved"
    /\ lastOp.arg = "handleRenameConversation"
    /\ lastOp.text # chat.activeConversationId
    /\ storage[lastOp.text].title = "Renamed"
    /\ Find(chat.conversations, lastOp.text).title = "Renamed"

----------------------------------------------------------------------------
(* Claims about failing storage calls and about the startup load *)

\* C28: when the storage call behind a delete, a rename or a debounced save
\* fails, the store's conversations and activeConversationId end as they
\* would have ended had the call succeeded.
C28_FailureLeavesStoreAsSuccess ==
    [][(lastOp'.op = "storageRejected" /\ lastOp'.arg # "loadFromStorage")
       => \E id \in ConvIds :
             Deps(chat') = Deps(Resumed(chat, storage, storageOps[Oldest], id))
      ]_vars

\* C29: no operation ends by rejecting when a storage call fails; the
\* failure is recorded in the store's error for the user to see.
C29_StorageFailureRecorded ==
    [][lastOp'.op = "storageRejected" => chat'.error = lastOp'.text]_vars

\* the records the object store holds
Stored(store) == {store[id] : id \in {k \in ConvIds : store[k] # NoRecord}}

\* C30: when the startup load completes, either storage held records and
\* the store's conversations are exactly those, ordered by updatedAt
\* descending, with the most recently updated one active; or storage held
\* none and the store holds exactly one conversation, new, with an empty
\* log, and active.
C30_StartupLoadResult ==
    [][(lastOp'.op = "storageResolved" /\ lastOp'.arg = "loadFromStorage")
       => LET loaded == chat'.conversations
          IN  IF Stored(storage) # {}
              THEN /\ Len(loaded) = Cardinality(Stored(storage))
                   /\ {loaded[i] : i \in 1..Len(loaded)} = Stored(storage)
                   /\ \A i, j \in 1..Len(loaded) :
                        i < j => loaded[i].updatedAt >= loaded[j].updatedAt
                   /\ chat'.activeConversationId = loaded[1].id
              ELSE /\ Len(loaded) = 1
                   /\ loaded[1].messages = <<>>
                   /\ loaded[1].title = "New Chat"
                   /\ chat'.activeConversationId = loaded[1].id]_vars

----------------------------------------------------------------------------
(* SpecStamp: the slice's operations on conversations while the clock
   advances, with selections of ids the store does not hold *)

NextStamp ==
    \/ \E id \in ChatConvIds : CreateConversation(id)
    \/ \E id \in ChatConvIds \cup {NoSuchId} : SetActiveConversation(id)
    \/ \E id \in ChatConvIds : UpdateConversationTitle(id, "Renamed")
    \/ \E payload \in StoreMessages :
          Total(chat.conversations) < MaxMsgs /\ AddMessage(payload)
    \/ ClearChat
    \/ \E id \in {"m1", "m3"} : UpdateMessage(id, "Edited")
    \/ Tick

SpecStamp == InitStore /\ [][NextStamp]_vars

\* C31: an operation that changes a conversation's messages or title sets
\* its updatedAt to the current time; one that changes neither leaves its
\* updatedAt as it was; updatedAt never decreases.
C31_UpdatedAtFollowsChanges ==
    [][\A i \in 1..Len(chat.conversations) :
          (Len(chat'.conversations) >= i
             /\ chat'.conversations[i].id = chat.conversations[i].id)
          => LET before == chat.conversations[i]
                 after == chat'.conversations[i]
             IN  /\ after.updatedAt >= before.updatedAt
                 /\ IF after.messages # before.messages
                       \/ after.title # before.title
                    THEN after.updatedAt = now
                    ELSE after.updatedAt = before.updatedAt]_vars

\* C32: once updateConversationTitle has set a conversation's title, no
\* later addMessage changes that title, whatever the log holds then.
C32_RenamedTitleKept ==
    [][lastOp'.op = "addMessage"
       => \A i \in 1..Len(chat.conversations) :
             chat.conversations[i].title = "Renamed"
             => chat'.conversations[i].title = "Renamed"]_vars

----------------------------------------------------------------------------
(* SpecSwitch: turns against the engine while conversations are loaded from
   storage and the user creates, selects and clears conversations *)

NextSwitch ==
    \/ \E id \in LogConvIds : CreateConversation(id)
    \/ \E id \in Ids(chat.conversations) : SetActiveConversation(id)
    \/ MountLoad
    \/ \E l \in 1..Len(loads) : CreateResolved(l)
    \/ Render
    \/ SendMessage("Hi")
    \/ \E t \in 1..Len(turns) : ChatResolved(t, "Hi!")
    \/ Clear
    \/ \E payload \in StoredLists : LoadConversations(payload)

SpecSwitch == InitWith(BOOLEAN) /\ [][NextSwitch]_vars

\* the conversations of the store whose log is longer after the step
Grown(before, after) ==
    {i \in 1..Len(after.conversations) :
        \E j \in 1..Len(before.conversations) :
            /\ before.conversations[j].id = after.conversations[i].id
            /\ Len(after.conversations[i].messages)
                 > Len(before.conversations[j].messages)}

\* C33: the reply of a turn is appended to the conversation that holds the
\* turn's user message, also when another conversation was created or
\* selected while the engine call was pending.
C33_ReplyJoinsItsUserMessage ==
    [][lastOp'.op = "chatResolved"
       => \A i \in Grown(chat, chat') :
             LET log == chat'.conversations[i].messages
                 request == turns[lastOp'.n].messages
             IN  \E k \in 1..(Len(log) - 1) :
                    /\ log[k].role = "user"
                    /\ log[k].content = request[Len(request)].content]_vars

\* C34: clear empties the log of the active conversation and of no other,
\* sets the error to null, keeps every conversation in the store with its
\* id and title, keeps the active id, and calls the service's reset when
\* there is a service; the store is cleared with and without a service.
C34_ClearEmptiesActiveOnly ==
    [][lastOp'.op = "clear"
       => /\ Len(chat'.conversations) = Len(chat.conversations)
          /\ chat'.activeConversationId = chat.activeConversationId
          /\ chat'.error = NULL
          /\ \A i \in 1..Len(chat.conversations) :
                LET before == chat.conversations[i]
                    after == chat'.conversations[i]
                IN  IF before.id = chat.activeConversationId
                    THEN /\ after.messages = <<>>
                         /\ after.id = before.id
                         /\ after.title = before.title
                    ELSE after = before
          /\ lastOp'.n = (IF hasService THEN 1 ELSE 0)
          /\ (hasService /\ engine # NoEngine) => lastOp'.arg = "resetChat"
      ]_vars

\* with no service, the active conversation's log went from one message to
\* none while the other conversation kept its own
C34_Witness ==
    /\ lastOp.op = "clear"
    /\ ~hasService
    /\ lastOp.n = 0
    /\ Len(chat.conversations) = 2
    /\ chat.activeConversationId = "conv-3"
    /\ chat.conversations[1].messages = <<>>
    /\ chat.conversations[1].updatedAt = now
    /\ chat.conversations[1].title = "Hi"

\* with a service holding an engine, clear emptied the log of the selected
\* conversation and left the messages of the other one
C34_WitnessService ==
    /\ lastOp.op = "clear"
    /\ lastOp.arg = "resetChat"
    /\ lastOp.n = 1
    /\ Len(chat.conversations) = 2
    /\ chat.activeConversationId = chat.conversations[2].id
    /\ chat.conversations[2].messages = <<>>
    /\ chat.conversations[1].messages # <<>>

----------------------------------------------------------------------------
(* SpecSelect: once the startup load has resolved, the user adds messages
   and selects conversations while time passes, timeouts run and storage
   calls resolve *)

NextSelect ==
    \/ /\ Loaded
       /\ \/ MessageAdded("Hello")
          \/ \E id \in ConvIds : HandleSelectConversation(id)
    \/ SaveTimeout
    \/ StorageResolved
    \/ Tick

SpecSelect == InitPersist /\ [][NextSelect]_vars

\* whether `record` holds the messages and the title of `conversation`
Carries(record, conversation) ==
    /\ record.id = conversation.id
    /\ record.messages = conversation.messages
    /\ record.title = conversation.title

\* a write of `conversation` as it is will be made or is in flight
WriteAhead(conversation) ==
    \/ /\ saveTimer.pending
       /\ Carries(Find(saveTimer.conversations,
                       saveTimer.activeConversationId), conversation)
    \/ \E i \in Pending :
          /\ storageOps[i].method = "saveConversation"
          /\ Carries(storageOps[i].record, conversation)

\* C35: every change of a conversation's messages or title is eventually
\* written to storage: while storage does not hold a conversation of the
\* store as it is, a write of it is pending or in flight, also after the user
\* selected another conversation within the debounce delay.
C35_UnsavedHasWriteAhead ==
    Loaded
    => \A i \in 1..Len(chat.conversations) :
          Carries(storage[chat.conversations[i].id], chat.conversations[i])
          \/ WriteAhead(chat.conversations[i])

----------------------------------------------------------------------------
(* SpecIds: turns that may start and complete within one reading of the
   clock or at different ones *)

NextIds ==
    \/ \E id \in ChatConvIds : CreateConversation(id)
    \/ MountLoad
    \/ \E l \in 1..Len(loads) : CreateResolved(l)
    \/ SendMessage("Hi")
    \/ \E t \in 1..Len(turns) : ChatResolved(t, "Hi!")
    \/ Tick

SpecIds == InitStore /\ [][NextIds]_vars

\* C36: the ids of the messages of one conversation are pairwise distinct,
\* also for turns that start or complete at the same reading of the clock.
C36_MessageIdsDistinct ==
    \A i \in 1..Len(chat.conversations) :
        LET log == chat.conversations[i].messages
        IN  \A k, l \in 1..Len(log) : k # l => log[k].id # log[l].id

\* C37: while a turn is awaiting its engine call isLoading is true: the
\* completion of another turn leaves it true.
C37_LoadingWhileAwaiting ==
    [][(lastOp'.op \in {"chatResolved", "chatNoContent", "chatRejected",
                        "chatNotInitialized"}
          /\ \E t \in 1..Len(turns') : turns'[t].pc = "awaiting")
       => chat'.isLoading]_vars

\* C38: the conversations the store holds when the startup read of storage
\* resolves, with their messages, are still in the store after the startup
\* load has been applied.
C38_StartupLoadKeepsStore ==
    [][(lastOp'.op = "storageResolved" /\ lastOp'.arg = "loadFromStorage")
       => \A i \in 1..Len(chat.conversations) :
             \E j \in 1..Len(chat'.conversations) :
                chat'.conversations[j] = chat.conversations[i]]_vars

----------------------------------------------------------------------------
(* WebLLMService.chatStream: an async generator *)

chatStream_Eager ==
    IF EngineUsable
    THEN Stream("suspended", <<>>, <<>>, NULL, NULL)
    ELSE Stream("thrown", <<>>, <<>>, NotInitializedMessage, "NOT_INITIALIZED")

\* what a call of chatStream returns: a generator whose body has not run
chatStream == Stream("suspended", <<>>, <<>>, NULL, NULL)

\* the service's chatStream is called
ChatStream ==
    /\ stream.pc = "none"
    /\ stream' = chatStream
    /\ lastOp' = Op("chatStream", NULL)
    /\ UNCHANGED <<chat, now, hasService, storage, saveTimer, storageOps,
                   hookMessages, engine, ready, engines, loads, turns,
                   chatCalls>>

\* the consumer's first next(): the body runs from its guard to the await of
\* engine.chat.completions.create
StreamNext ==
    /\ stream.pc = "suspended"
    /\ stream' = IF EngineUsable
                 THEN Stream("creating", <<>>, <<>>, NULL, NULL)
                 ELSE Stream("thrown", <<>>, <<>>, NotInitializedMessage,
                             "NOT_INITIALIZED")
    /\ chatCalls' = IF EngineUsable THEN chatCalls + 1 ELSE chatCalls
    /\ lastOp' = Op("streamNext", IF EngineUsable THEN "engine" ELSE NULL)
    /\ UNCHANGED <<chat, now, hasService, storage, saveTimer, storageOps,
                   hookMessages, engine, ready, engines, loads, turns>>

\* create resolved with the engine's stream
StreamCreateResolved ==
    /\ stream.pc = "creating"
    /\ stream' = [stream EXCEPT !.pc = "iterating"]
    /\ lastOp' = Op("streamCreateResolved", NULL)
    /\ UNCHANGED <<chat, now, hasService, storage, saveTimer, storageOps,
                   hookMessages, engine, ready, engines, loads, turns,
                   chatCalls>>

\* create rejected, or the engine's stream threw, with `error`: the catch
\* block wraps it
StreamFailed(error) ==
    /\ stream.pc \in {"creating", "iterating"}
    /\ stream' = Stream("thrown", stream.produced, stream.yielded,
                        MessageOf(error, "Stream generation failed"),
                        "GENERATION_ERROR")
    /\ lastOp' = OpText("streamFailed", stream.pc, 0, error.message)
    /\ UNCHANGED <<chat, now, hasService, storage, saveTimer, storageOps,
                   hookMessages, engine, ready, engines, loads, turns,
                   chatCalls>>

\* the engine's stream produced a chunk whose delta content is `content`,
\* which is yielded if (content)
StreamChunk(content) ==
    /\ stream.pc = "iterating"
    /\ Len(stream.produced) < MaxChunks
    /\ stream' = [stream EXCEPT
                    !.produced = Append(@, content),
                    !.yielded = IF content \notin {UNDEFINED, NULL, ""}
                                THEN Append(@, content)
                                ELSE @]
    /\ lastOp' = OpText("streamChunk", NULL, 0, content)
    /\ UNCHANGED <<chat, now, hasService, storage, saveTimer, storageOps,
                   hookMessages, engine, ready, engines, loads, turns,
                   chatCalls>>

\* the engine's stream ended: the generator returns
StreamDone ==
    /\ stream.pc = "iterating"
    /\ stream' = [stream EXCEPT !.pc = "returned"]
    /\ lastOp' = Op("streamDone", NULL)
    /\ UNCHANGED <<chat, now, hasService, storage, saveTimer, storageOps,
                   hookMessages, engine, ready, engines, loads, turns,
                   chatCalls>>

(* SpecStream: one chatStream call on a handle that is or is not ready *)

NextStream ==
    \/ MountLoad
    \/ \E l \in 1..Len(loads) : CreateResolved(l)
    \/ ChatStream
    \/ StreamNext
    \/ StreamCreateResolved
    \/ \E error \in {ErrorOf("Out of memory"), NotAnError} :
          StreamFailed(error)
    \/ \E content \in {"Hel", "lo", "", UNDEFINED} : StreamChunk(content)
    \/ StreamDone

SpecStream == InitStore /\ [][NextStream]_vars

\* the chunk contents that are fragments of text
HasContent(content) == content # UNDEFINED /\ content # NULL /\ content # ""

\* C39: a call of chatStream throws nothing, ready engine or not; on a
\* handle with no ready engine the first iteration throws 'Engine not
\* initialized'; a failure of the engine is thrown at the iteration that
\* meets it, as a generation error; a throw or a return ends the sequence;
\* and the fragments yielded are the contents the engine produced, in its
\* order, without the chunks that have none.
C39_StreamFailsOnlyWhenConsumed ==
    /\ [][lastOp'.op = "chatStream"
          => stream' = Stream("suspended", <<>>, <<>>, NULL, NULL)]_vars
    /\ [][(lastOp'.op = "streamNext" /\ ~(engine # NoEngine /\ ready))
          => /\ stream'.pc = "thrown"
             /\ stream'.error = "Engine not initialized"
             /\ stream'.type = "NOT_INITIALIZED"
             /\ chatCalls' = chatCalls]_vars
    /\ [][lastOp'.op = "streamFailed"
          => /\ stream'.pc = "thrown"
             /\ stream'.type = "GENERATION_ERROR"
             /\ stream'.error = IF lastOp'.text # NULL
                                THEN lastOp'.text
                                ELSE "Stream generation failed"
             /\ stream'.yielded = stream.yielded]_vars
    /\ [][stream.pc \in {"thrown", "returned"} => stream' = stream]_vars
    /\ [](stream.yielded = SelectSeq(stream.produced, HasContent))

\* on a handle that was not ready the call returned a generator, and the
\* first iteration threw
C39_Witness ==
    /\ lastOp.op = "streamNext"
    /\ ~ready
    /\ stream.pc = "thrown"
    /\ stream.type = "NOT_INITIALIZED"

\* the engine produced three chunks, one without content, and then failed:
\* two fragments had been yielded when the error was thrown
C39_WitnessFailure ==
    /\ lastOp.op = "streamFailed"
    /\ stream.produced = <<"Hel", UNDEFINED, "lo">>
    /\ stream.yielded = <<"Hel", "lo">>
    /\ stream.error = "Out of memory"

----------------------------------------------------------------------------
(* Selections of ids the store does not hold, under SpecStamp *)

\* the active id names no conversation of the store
Dangling(state) ==
    /\ state.activeConversationId # NULL
    /\ state.activeConversationId \notin Ids(state.conversations)

\* C40: setActiveConversation(id), whether or not the store holds id, makes
\* id the active id and changes neither the conversations nor the error;
\* while the active id names no conversation, addMessage, updateMessage and
\* clearChat change no conversation.
C40_UnknownSelectionKept ==
    /\ [][lastOp'.op = "setActiveConversation"
          => /\ chat'.activeConversationId = lastOp'.arg
             /\ chat'.conversations = chat.conversations
             /\ chat'.error = chat.error]_vars
    /\ [][(Dangling(chat)
           /\ lastOp'.op \in {"addMessage", "updateMessage", "clearChat"})
          => /\ chat'.conversations = chat.conversations
             /\ chat'.activeConversationId = chat.activeConversationId]_vars

\* an id the store does not hold was selected while a conversation held a
\* message, and an addMessage made after it left that log as it was
C40_Witness ==
    /\ lastOp.op = "addMessage"
    /\ chat.activeConversationId = "non-existent"
    /\ Len(chat.conversations) = 1
    /\ Len(chat.conversations[1].messages) = 1

\* the same for clearChat: the log still holds its message
C40_WitnessClear ==
    /\ lastOp.op = "clearChat"
    /\ chat.activeConversationId = "non-existent"
    /\ Len(chat.conversations) = 1
    /\ Len(chat.conversations[1].messages) = 1

====
